---- MODULE Spec2Model ----
(***************************************************************************)
(* Model of .github/scripts/discord_notify.py: the commit notifier that    *)
(* reads commit metadata, builds a size-bounded Discord embed and posts it *)
(* to a webhook.                                                           *)
(*                                                                         *)
(* Text is a sequence of one-character strings, so that len(), slicing,    *)
(* rfind() and concatenation are computed character by character, with the *)
(* limits of the script (256, 2000, 1900) at their real values.            *)
(***************************************************************************)
EXTENDS Integers, Sequences, FiniteSets, TLC

VARIABLES
    text, max_length, result,   \* truncate_text: arguments and return value
    env,                        \* os.environ, the variables the script reads
    event,                      \* the file GITHUB_EVENT_PATH names
    head,                       \* the commit the checkout's HEAD points to
    pc,                         \* position in main (or in the function under check)
    before, after,              \* what get_commit_range returned
    revList,                    \* what git rev-list printed for before..after
    commits,                    \* the list handed to create_discord_payload_for_commits
    payload,                    \* the payload built
    exitCode,                   \* the process's exit code, -1 while running
    httpRequests,               \* number of urlopen calls made
    status,                     \* what the webhook answered
    gitFailed,                  \* a git query failed
    uncaught,                   \* the exception that escaped main, "none" otherwise
    printed                     \* the test-mode reports written to stdout

vars == <<text, max_length, result, env, event, head, pc, before, after, revList,
          commits, payload, exitCode, httpRequests, status, gitFailed, uncaught,
          printed>>

----------------------------------------------------------------------------
(* Python values and string operations *)

\* Python's None: a value that is no text (a text holds one-character strings)
None == <<"None">>

Min(a, b) == IF a < b THEN a ELSE b

Max(a, b) == IF a > b THEN a ELSE b

MaxOf(S) == CHOOSE i \in S : \A j \in S : j <= i

\* s[:e]: a negative e counts from the end, and the bounds are clamped
Slice(s, e) ==
    LET n == Len(s)
        stop == IF e < 0 THEN Max(n + e, 0) ELSE Min(e, n)
    IN  SubSeq(s, 1, stop)

\* s.rfind(sub): the 0-based index of the last occurrence of sub in s, or -1
Rfind(s, sub) ==
    LET m == Len(sub)
        hits == {i \in 0..(Len(s) - m) : \A k \in 1..m : s[i + k] = sub[k]}
    IN  IF hits = {} THEN -1 ELSE MaxOf(hits)

\* c repeated n times
Rep(c, n) == [i \in 1..n |-> c]

\* truthiness of a string or None
Truthy(v) == v # None /\ v # <<>>

----------------------------------------------------------------------------
(* truncate_text *)

PARAGRAPH_BREAK == <<"\n", "\n">>

SENTENCE_BREAK == <<".", " ">>

PARAGRAPH_ELLIPSIS == <<"\n", "\n", ".", ".", ".">>

SENTENCE_ELLIPSIS == <<" ", ".", ".", ".">>

ELLIPSIS == <<".", ".", ".">>

\* the candidate: text[:max_length - 3]
Candidate(t, L) == Slice(t, L - 3)

\* the mutant leaves room for two characters only
truncate_text_short_room(t, L) ==
    IF Len(t) <= L THEN t
    ELSE LET truncated == Slice(t, L - 2)
             last_double_newline == Rfind(truncated, PARAGRAPH_BREAK)
             last_period == Rfind(truncated, SENTENCE_BREAK)
         IN  IF last_double_newline > L \div 2
             THEN Slice(truncated, last_double_newline) \o PARAGRAPH_ELLIPSIS
             ELSE IF last_period > L \div 2
             THEN Slice(truncated, last_period + 1) \o SENTENCE_ELLIPSIS
             ELSE truncated \o ELLIPSIS

\* the mutant accepts a boundary at half the limit itself
truncate_text_at_half(t, L) ==
    IF Len(t) <= L THEN t
    ELSE LET truncated == Candidate(t, L)
             last_double_newline == Rfind(truncated, PARAGRAPH_BREAK)
             last_period == Rfind(truncated, SENTENCE_BREAK)
         IN  IF last_double_newline >= L \div 2
             THEN Slice(truncated, last_double_newline) \o PARAGRAPH_ELLIPSIS
             ELSE IF last_period >= L \div 2
             THEN Slice(truncated, last_period + 1) \o SENTENCE_ELLIPSIS
             ELSE truncated \o ELLIPSIS

truncate_text(t, L) ==
    IF Len(t) <= L THEN t
    ELSE LET truncated == Candidate(t, L)
             last_double_newline == Rfind(truncated, PARAGRAPH_BREAK)
             last_period == Rfind(truncated, SENTENCE_BREAK)
         IN  IF last_double_newline > L \div 2
             THEN Slice(truncated, last_double_newline) \o PARAGRAPH_ELLIPSIS
             ELSE IF last_period > L \div 2
             THEN Slice(truncated, last_period + 1) \o SENTENCE_ELLIPSIS
             ELSE truncated \o ELLIPSIS

----------------------------------------------------------------------------
(* Commits and their presentation *)

\* str(n) for n >= 0
DIGITS == <<"0", "1", "2", "3", "4", "5", "6", "7", "8", "9">>

RECURSIVE Str(_)
Str(n) == IF n < 10 THEN <<DIGITS[n + 1]>> ELSE Str(n \div 10) \o <<DIGITS[(n % 10) + 1]>>

\* sep.join(parts)
RECURSIVE Join(_, _)
Join(parts, sep) ==
    IF parts = <<>> THEN <<>>
    ELSE IF Len(parts) = 1 THEN parts[1]
    ELSE parts[1] \o sep \o Join(Tail(parts), sep)

NEWLINE == <<"\n">>

\* the dict main and get_commits_in_range build for a commit: short_sha is sha[:8]
CommitOf(sha, info) ==
    [sha |-> sha, short_sha |-> Slice(sha, 8), message |-> info.message,
     body |-> info.body, author |-> info.author]

\* f"https://github.com/{repo_name}/commit/{sha}"
commit_url(repo_name, sha) ==
    <<"h", "t", "t", "p", "s", ":", "/", "/", "g", "i", "t", "h", "u", "b", ".", "c", "o", "m", "/">>
    \o repo_name \o <<"/", "c", "o", "m", "m", "i", "t", "/">> \o sha

\* the backquote character, which a string of this notation cannot hold
BACKQUOTE == "backquote"

\* the line "[" + backquote + short_sha + backquote + "](" + commit_url + ") " + message + " - " + author
format_commit_for_discord(commit, repo_name) ==
    <<"[", BACKQUOTE>> \o commit.short_sha \o <<BACKQUOTE, "]", "(">>
    \o commit_url(repo_name, commit.sha) \o <<")", " ">>
    \o commit.message \o <<" ", "-", " ">> \o commit.author

\* f"[{short_sha}]({commit_url})"
commit_link(commit, repo_name) ==
    <<"[">> \o commit.short_sha \o <<"]", "(">> \o commit_url(repo_name, commit.sha) \o <<")">>

\* f"...and {remaining} more commits"
summary_line(remaining) ==
    <<".", ".", ".", "a", "n", "d", " ">> \o Str(remaining)
    \o <<" ", "m", "o", "r", "e", " ", "c", "o", "m", "m", "i", "t", "s">>

TITLE_LIMIT == 256

DESCRIPTION_LIMIT == 2000

DIGEST_LIMIT == 2000

LINE_BUDGET == 1900

MAX_LISTED_AUTHORS == 3

\* the greedy loop over commit_lines: truncated_lines when the loop ends
RECURSIVE fit_lines(_, _, _, _)
fit_lines(commit_lines, i, truncated_lines, current_length) ==
    IF i > Len(commit_lines) THEN truncated_lines
    ELSE IF current_length + Len(commit_lines[i]) + 1 > LINE_BUDGET
    THEN Append(truncated_lines, summary_line(Len(commit_lines) - Len(truncated_lines)))
    ELSE fit_lines(commit_lines, i + 1, Append(truncated_lines, commit_lines[i]),
                   current_length + Len(commit_lines[i]) + 1)

\* the mutant counts the commits after the one that did not fit
RECURSIVE fit_lines_miscount(_, _, _, _)
fit_lines_miscount(commit_lines, i, truncated_lines, current_length) ==
    IF i > Len(commit_lines) THEN truncated_lines
    ELSE IF current_length + Len(commit_lines[i]) + 1 > LINE_BUDGET
    THEN Append(truncated_lines, summary_line(Len(commit_lines) - Len(truncated_lines) - 1))
    ELSE fit_lines_miscount(commit_lines, i + 1, Append(truncated_lines, commit_lines[i]),
                            current_length + Len(commit_lines[i]) + 1)

\* the mutant cuts the joined lines once they pass the budget
digest_description_miscount(commit_lines) ==
    LET description == Join(commit_lines, NEWLINE)
    IN  IF Len(description) > DIGEST_LIMIT
        THEN Join(fit_lines_miscount(commit_lines, 1, <<>>, 0), NEWLINE)
        ELSE description

\* the mutant never cuts the joined lines
digest_description_uncut(commit_lines) == Join(commit_lines, NEWLINE)

\* the digest's description: the joined lines, cut greedily when over the limit
digest_description(commit_lines) ==
    LET description == Join(commit_lines, NEWLINE)
    IN  IF Len(description) > DIGEST_LIMIT
        THEN Join(fit_lines(commit_lines, 1, <<>>, 0), NEWLINE)
        ELSE description

\* set(commit['author'] for commit in commits)
AuthorSet(cs) == {cs[i].author : i \in 1..Len(cs)}

\* list(set(...)): the set's elements in the order the interpreter iterates them;
\* string hashing is randomised per process, so every order can come out
AuthorOrders(cs) ==
    LET S == AuthorSet(cs)
    IN  {o \in [1..Cardinality(S) -> S] : \A i, j \in 1..Cardinality(S) : o[i] = o[j] => i = j}

\* ", ".join(authors) if len(authors) <= 3 else f"{authors[0]} and {len(authors) - 1} others"
author_text(authors) ==
    IF Len(authors) <= MAX_LISTED_AUTHORS THEN Join(authors, <<",", " ">>)
    ELSE authors[1] \o <<" ", "a", "n", "d", " ">> \o Str(Len(authors) - 1)
         \o <<" ", "o", "t", "h", "e", "r", "s">>

Field(name, value) == [name |-> name, value |-> value, inline |-> TRUE]

\* the single-commit embed
single_payload(commit, repo_name) ==
    [title |-> truncate_text(commit.message, TITLE_LIMIT),
     description |-> truncate_text(commit.body, DESCRIPTION_LIMIT),
     color |-> 5814783,
     fields |-> <<Field("Author", commit.author),
                  Field("Commit", commit_link(commit, repo_name))>>]

\* the digest embed
digest_payload(cs, repo_name, authors) ==
    [title |-> Str(Len(cs)) \o <<" ", "c", "o", "m", "m", "i", "t", "s", " ", "p", "u", "s", "h", "e", "d", " ", "t", "o", " ", "m", "a", "i", "n">>,
     description |->
        digest_description([i \in 1..Len(cs) |-> format_commit_for_discord(cs[i], repo_name)]),
     color |-> 5814783,
     fields |-> <<Field("Authors", author_text(authors)),
                  Field("Commits", Str(Len(cs)))>>]

\* the embed of payload["embeds"][0]; authors is list(set(...)) as iterated.
\* The timestamp, read from the clock, is left out.
create_discord_payload_for_commits(cs, repo_name, authors) ==
    IF Len(cs) = 1 THEN single_payload(cs[1], repo_name)
    ELSE digest_payload(cs, repo_name, authors)

NoPayload == [title |-> <<>>, description |-> <<>>, color |-> 0, fields |-> <<>>]

----------------------------------------------------------------------------
(* truncate_text as a function: SpecTruncate draws a text and a limit and    *)
(* applies it                                                               *)

\* longest text drawn, in tokens, and largest limit drawn
MaxTokens == 7

MaxLimit == 12

\* a text is a run of letters, newlines and sentence ends
Tokens == {<<"a">>, <<"\n">>, <<".", " ">>}

Texts == {Join(ts, <<>>) : ts \in UNION {[1..n -> Tokens] : n \in 0..MaxTokens}}

\* the variables of main, at rest while a function is checked alone
MainIdle ==
    /\ env = [GITHUB_SHA |-> None, GITHUB_REPOSITORY |-> None,
              DISCORD_WEBHOOK_FOR_COMMITS |-> None, DISCORD_TEST_MODE |-> None]
    /\ event = [kind |-> "unset"]
    /\ head = None
    /\ before = None
    /\ after = None
    /\ revList = <<>>
    /\ exitCode = -1
    /\ httpRequests = 0
    /\ status = 0
    /\ gitFailed = FALSE
    /\ uncaught = "none"
    /\ printed = {}

InitTruncate ==
    /\ text \in Texts
    /\ max_length \in 0..MaxLimit
    /\ result = None
    /\ pc = "truncate"
    /\ commits = <<>>
    /\ payload = NoPayload
    /\ MainIdle

Truncate ==
    /\ pc = "truncate"
    /\ result' = truncate_text(text, max_length)
    /\ pc' = "truncated"
    /\ UNCHANGED <<text, max_length, env, event, head, before, after, revList, commits,
                   payload, exitCode, httpRequests, status, gitFailed, uncaught, printed>>

NextTruncate == Truncate

SpecTruncate == InitTruncate /\ [][NextTruncate]_vars

EndsWith(s, suffix) ==
    /\ Len(s) >= Len(suffix)
    /\ SubSeq(s, Len(s) - Len(suffix) + 1, Len(s)) = suffix

EndsWithMarker(s) ==
    EndsWith(s, PARAGRAPH_ELLIPSIS) \/ EndsWith(s, SENTENCE_ELLIPSIS) \/ EndsWith(s, ELLIPSIS)

\* the 0-based places in c where sub starts
Breaks(c, sub) == {i \in 0..(Len(c) - Len(sub)) : SubSeq(c, i + 1, i + Len(sub)) = sub}

LastBreak(c, sub) == IF Breaks(c, sub) = {} THEN -1 ELSE MaxOf(Breaks(c, sub))

\* C1 as stated: for every text T and every limit L, truncate_text(T, L) is T when
\* len(T) <= L, and otherwise has at most L characters and ends with one of the
\* three markers. No result can do both for L < 3.
C1_AnyLimit ==
    pc = "truncated" =>
        /\ Len(text) <= max_length => result = text
        /\ Len(text) > max_length => Len(result) <= max_length /\ EndsWithMarker(result)

\* C1, amended: for every text T and every limit L >= 3, truncate_text(T, L) is T
\* when len(T) <= L, and otherwise has at most L characters and ends with one of
\* the three markers; for L < 3 a text of at most L characters is still returned
\* unchanged.
C1_TruncateWithinLimit ==
    pc = "truncated" =>
        /\ Len(text) <= max_length => result = text
        /\ (Len(text) > max_length /\ max_length >= 3) =>
               Len(result) <= max_length /\ EndsWithMarker(result)

\* a text longer than its limit was cut at a paragraph break, filling the limit
C1_Witness ==
    /\ pc = "truncated"
    /\ max_length >= 3
    /\ Len(text) > max_length
    /\ LastBreak(Candidate(text, max_length), PARAGRAPH_BREAK) > max_length \div 2
    /\ Len(result) = max_length
    /\ EndsWith(result, PARAGRAPH_ELLIPSIS)

\* the ordered fallback, a boundary being accepted under Accept(index, limit, candidate)
Fallback(Accept(_, _, _)) ==
    LET C == Candidate(text, max_length)
        para == LastBreak(C, PARAGRAPH_BREAK)
        sent == LastBreak(C, SENTENCE_BREAK)
    IN  IF para >= 0 /\ Accept(para, max_length, C)
        THEN result = SubSeq(C, 1, para) \o PARAGRAPH_ELLIPSIS
        ELSE IF sent >= 0 /\ Accept(sent, max_length, C)
        THEN result = SubSeq(C, 1, sent + 1) \o SENTENCE_ELLIPSIS
        ELSE result = C \o ELLIPSIS

AtOrAfterMidpoint(i, L, C) == 2 * i >= Len(C)

PastHalfLimit(i, L, C) == i > L \div 2

\* C2 as stated: with len(T) > L, the last paragraph break of the candidate
\* C = T[:L-3] is used when it lies at or after C's midpoint, else the last sentence
\* break when it lies at or after the midpoint, else C + "..." is returned.
C2_MidpointOfCandidate ==
    (pc = "truncated" /\ Len(text) > max_length) => Fallback(AtOrAfterMidpoint)

\* C2, amended: with len(T) > L and C = T[:L-3], the last paragraph break of C is
\* used exactly when its index is greater than L // 2 (half the limit, not half the
\* candidate; a break at L // 2 or before is not used), the result being C cut at the
\* break plus "\n\n..."; otherwise the last sentence break is used exactly when its
\* index is greater than L // 2, the result being C cut just after the period plus
\* " ..."; otherwise the result is C plus "...". A boundary used is never before the
\* candidate's midpoint: the cut length is at least (L-3)/2.
C2_OrderedFallback ==
    (pc = "truncated" /\ Len(text) > max_length) =>
        /\ Fallback(PastHalfLimit)
        /\ LET C == Candidate(text, max_length)
               cut == IF EndsWith(result, PARAGRAPH_ELLIPSIS)
                      THEN Len(result) - Len(PARAGRAPH_ELLIPSIS)
                      ELSE Len(result) - Len(SENTENCE_ELLIPSIS)
           IN  result # C \o ELLIPSIS => 2 * cut >= max_length - 3

\* a sentence break past half the limit was used although a paragraph break lay
\* earlier in the candidate
C2_Witness ==
    /\ pc = "truncated"
    /\ max_length >= 3
    /\ Len(text) > max_length
    /\ LastBreak(Candidate(text, max_length), PARAGRAPH_BREAK) >= 0
    /\ LastBreak(Candidate(text, max_length), SENTENCE_BREAK) > max_length \div 2
    /\ EndsWith(result, SENTENCE_ELLIPSIS)
    /\ ~EndsWith(result, PARAGRAPH_ELLIPSIS)

----------------------------------------------------------------------------
(* The repository the script runs in: five commits, oldest first *)

\* sizes of the subjects and bodies of the commits below
LongSubject == 700

HugeSubject == 1850

SentenceAt == 200

BodyHead == 1500

BodyTail == 600

History == <<"a", "b", "c", "d", "e">>

\* a commit's 40-character hash, and the hash a push event sends for "no commit"
Sha(c) == Rep(c, 40)

ZERO_SHA == Rep("0", 40)

ALICE == <<"A", "l", "i", "c", "e">>

BOB == <<"B", "o", "b">>

CAROL == <<"C", "a", "r", "o", "l">>

DAVE == <<"D", "a", "v", "e">>

\* what git log -1 prints for a commit: %s, %b and %an, stripped
GitLog(c) ==
    CASE c = "a" -> [message |-> <<"F", "i", "x", " ", "b", "u", "g">>,
                     body |-> <<>>,
                     author |-> ALICE]
      [] c = "b" -> [message |-> Rep("m", LongSubject),
                     body |-> Rep("x", BodyHead) \o PARAGRAPH_BREAK \o Rep("y", BodyTail),
                     author |-> BOB]
      [] c = "c" -> [message |-> Rep("w", SentenceAt) \o SENTENCE_BREAK \o Rep("v", SentenceAt),
                     body |-> Rep("s", BodyHead) \o SENTENCE_BREAK \o Rep("t", BodyTail),
                     author |-> CAROL]
      [] c = "d" -> [message |-> Rep("h", HugeSubject),
                     body |-> Rep("z", BodyHead) \o NEWLINE \o Rep("z", BodyTail),
                     author |-> DAVE]
      [] c = "e" -> [message |-> Rep("n", LongSubject),
                     body |-> <<>>,
                     author |-> ALICE]

\* the commit whose hash is sha
CommitWithSha(sha) == CHOOSE c \in {History[i] : i \in 1..Len(History)} : Sha(c) = sha

REPOSITORY == <<"a", "c", "m", "e", "/", "s", "k", "e", "t", "c", "h">>

WEBHOOK == <<"h", "t", "t", "p", "s", ":", "/", "/", "d", "i", "s", "c", "o", "r", "d", ".", "t", "e", "s", "t", "/", "h", "o", "o", "k">>

----------------------------------------------------------------------------
(* create_discord_payload_for_commits as a function: SpecPayload draws a     *)
(* commit list and applies it                                               *)

\* longest commit list drawn
MaxCommits == 4

\* lists of distinct commits of the repository, in any order
CommitLists ==
    LET keys == {History[i] : i \in 1..Len(History)}
        picks == UNION {[1..n -> keys] : n \in 0..MaxCommits}
    IN  {[i \in 1..Len(ks) |-> CommitOf(Sha(ks[i]), GitLog(ks[i]))] :
            ks \in {q \in picks : \A i, j \in 1..Len(q) : q[i] = q[j] => i = j}}

InitPayload ==
    /\ commits \in CommitLists
    /\ payload = NoPayload
    /\ pc = "build"
    /\ env = [GITHUB_SHA |-> Sha("a"), GITHUB_REPOSITORY |-> REPOSITORY,
              DISCORD_WEBHOOK_FOR_COMMITS |-> WEBHOOK, DISCORD_TEST_MODE |-> None]
    /\ event = [kind |-> "unset"]
    /\ head = "a"
    /\ before = None
    /\ after = None
    /\ revList = <<>>
    /\ exitCode = -1
    /\ httpRequests = 0
    /\ status = 0
    /\ gitFailed = FALSE
    /\ uncaught = "none"
    /\ printed = {}
    /\ text = <<>>
    /\ max_length = 0
    /\ result = None

\* payload = create_discord_payload_for_commits(commits, repo_name)
BuildPayload ==
    /\ pc = "build"
    /\ \E authors \in AuthorOrders(commits) :
           payload' = create_discord_payload_for_commits(commits, env.GITHUB_REPOSITORY, authors)
    /\ pc' = "built"
    /\ UNCHANGED <<text, max_length, result, env, event, head, before, after, revList,
                   commits, exitCode, httpRequests, status, gitFailed, uncaught, printed>>

NextPayload == BuildPayload

SpecPayload == InitPayload /\ [][NextPayload]_vars

\* s.split("\n")
Lines(s) ==
    LET nl == {i \in 1..Len(s) : s[i] = "\n"}
        starts == {1} \cup {i + 1 : i \in nl}
        start(j) == CHOOSE p \in starts : Cardinality({q \in starts : q < p}) = j - 1
        stop(p) == IF {i \in nl : i >= p} = {} THEN Len(s)
                   ELSE (CHOOSE i \in nl : i >= p /\ \A k \in nl : k >= p => i <= k) - 1
    IN  [j \in 1..Cardinality(starts) |-> SubSeq(s, start(j), stop(start(j)))]

CompactLines == [i \in 1..Len(commits) |-> format_commit_for_discord(commits[i], env.GITHUB_REPOSITORY)]

IsSummaryLine(line) == \E k \in 0..Len(commits) : line = summary_line(k)

IsDigest(p) == Len(p.fields) = 2 /\ p.fields[1].name = "Authors"

IsSingle(p) == Len(p.fields) = 2 /\ p.fields[1].name = "Author"

\* C7: for N > 1 commits whose joined compact lines exceed 2000 characters, the
\* description's last line is the one summary line "...and k more commits", the
\* lines before it are the compact lines of the first N-k commits in order, and k
\* counts the commits that have no line (included lines + k = N).
C7_SummaryCountsTheRest ==
    (pc = "built" /\ Len(commits) > 1 /\ Len(Join(CompactLines, NEWLINE)) > 2000) =>
        LET dl == Lines(payload.description)
            k == Len(commits) - (Len(dl) - 1)
        IN  /\ k >= 1
            /\ dl[Len(dl)] = summary_line(k)
            /\ \A i \in 1..(Len(dl) - 1) : dl[i] = CompactLines[i] /\ ~IsSummaryLine(dl[i])

\* a digest whose list was cut after some lines, more than one commit left out
C7_Witness ==
    /\ pc = "built"
    /\ Len(commits) > 2
    /\ Len(Join(CompactLines, NEWLINE)) > 2000
    /\ Len(Lines(payload.description)) = 2
    /\ Lines(payload.description)[2] = summary_line(Len(commits) - 1)

\* C9: every payload built has a title of at most 256 characters and a description
\* of at most 2000 characters, in both shapes and for every commit list, also when
\* the first compact line alone exceeds the 1900 budget.
C9_PayloadWithinBounds ==
    pc = "built" => Len(payload.title) <= 256 /\ Len(payload.description) <= 2000

\* a digest whose first compact line alone exceeds the budget: the description is
\* the summary line
C9_Witness ==
    /\ pc = "built"
    /\ Len(commits) > 1
    /\ Len(CompactLines[1]) > 1900
    /\ payload.description = summary_line(Len(commits))

\* a single-commit payload whose title and description were both cut to the limit
C9_WitnessSingle ==
    /\ pc = "built"
    /\ Len(commits) = 1
    /\ Len(commits[1].message) > 256
    /\ Len(commits[1].body) > 2000
    /\ IsSingle(payload)

\* C8: for N > 1 commits the Authors field is a function of the commit list alone:
\* with at most 3 distinct authors the comma-joined list of the distinct authors,
\* with more than 3 "<author of the first commit> and <D-1> others"; two runs on
\* the same list give the same value.
C8_AuthorsDetermined ==
    (pc = "built" /\ Len(commits) > 1) =>
        LET D == Cardinality(AuthorSet(commits))
            shown == payload.fields[1].value
        IN  /\ D <= 3 => \E o \in AuthorOrders(commits) : shown = Join(o, <<",", " ">>)
            /\ D > 3 => shown = commits[1].author \o <<" ", "a", "n", "d", " ">> \o Str(D - 1)
                                  \o <<" ", "o", "t", "h", "e", "r", "s">>
            /\ \A o \in AuthorOrders(commits) : author_text(o) = shown

----------------------------------------------------------------------------
(* main: one run of the script, step by step *)

\* longest range git rev-list prints
MaxRange == 3

\* the states of the file GITHUB_EVENT_PATH names; before and after are the
\* fields of the JSON object, None when the object has no such field
EventStates ==
    {[kind |-> k, before |-> None, after |-> None] :
        k \in {"unset", "missing", "unreadable", "invalid_json", "not_object"}}
    \cup {[kind |-> "object", before |-> b, after |-> a] :
            b \in {None, ZERO_SHA, Sha("a")}, a \in {None, Sha("d")}}

\* what git rev-list --reverse before..after can print: a run of the history
RevLists ==
    {SubSeq(History, i, j) : i \in 1..(Len(History) + 1), j \in 0..Len(History)}
    \cap UNION {[1..n -> {History[i] : i \in 1..Len(History)}] : n \in 0..MaxRange}

\* what the webhook can answer: a response (urlopen returns 2xx responses), an
\* HTTPError, or another exception (no route, timeout)
Responses ==
    {[kind |-> "response", code |-> c, marker |-> FALSE] : c \in {204, 200}}
    \cup {[kind |-> "http_error", code |-> c, marker |-> m] : c \in {403, 500}, m \in BOOLEAN}
    \cup {[kind |-> "exception", code |-> 0, marker |-> FALSE]}

Init ==
    /\ env \in [GITHUB_SHA : {None, Sha("a"), Sha("d")},
                GITHUB_REPOSITORY : {None, REPOSITORY},
                DISCORD_WEBHOOK_FOR_COMMITS : {<<>>, WEBHOOK},
                DISCORD_TEST_MODE : {None, <<"1">>, <<"0">>}]
    /\ event \in EventStates
    /\ head \in {"a", "d"}
    /\ pc = "validate"
    /\ before = None
    /\ after = None
    /\ revList = <<>>
    /\ commits = <<>>
    /\ payload = NoPayload
    /\ exitCode = -1
    /\ httpRequests = 0
    /\ status = 0
    /\ gitFailed = FALSE
    /\ uncaught = "none"
    /\ printed = {}
    /\ text = <<>>
    /\ max_length = 0
    /\ result = None

\* validate_environment passes
EnvironmentValid(e) ==
    /\ Truthy(e.GITHUB_SHA)
    /\ Truthy(e.GITHUB_REPOSITORY)
    /\ Truthy(e.DISCORD_WEBHOOK_FOR_COMMITS)

\* validate_environment()
Validate ==
    /\ pc = "validate"
    /\ IF EnvironmentValid(env)
       THEN pc' = "range" /\ UNCHANGED exitCode
       ELSE pc' = "done" /\ exitCode' = 1
    /\ UNCHANGED <<text, max_length, result, env, event, head, before, after, revList,
                   commits, payload, httpRequests, status, gitFailed, uncaught, printed>>

\* the mutant takes any set DISCORD_TEST_MODE but "1" for test mode
TestModeMisread(e) == Truthy(e.DISCORD_TEST_MODE) /\ e.DISCORD_TEST_MODE # <<"1">>

\* os.environ.get('DISCORD_TEST_MODE') == '1'
TestMode(e) == e.DISCORD_TEST_MODE = <<"1">>

\* get_commit_range(): the exception that escapes it ("none" when it returns)
\* and the pair it returns. open() on a file that cannot be read raises
\* PermissionError, and .get on JSON that is no object raises AttributeError;
\* neither is among the exceptions caught.
get_commit_range(ev) ==
    CASE ev.kind = "unset" -> [raised |-> "none", before |-> None, after |-> None]
      [] ev.kind = "missing" -> [raised |-> "none", before |-> None, after |-> None]
      [] ev.kind = "invalid_json" -> [raised |-> "none", before |-> None, after |-> None]
      [] ev.kind = "unreadable" -> [raised |-> "PermissionError", before |-> None, after |-> None]
      [] ev.kind = "not_object" -> [raised |-> "AttributeError", before |-> None, after |-> None]
      [] ev.kind = "object" ->
            IF Truthy(ev.before) /\ ev.before # ZERO_SHA
            THEN [raised |-> "none", before |-> ev.before, after |-> ev.after]
            ELSE [raised |-> "none", before |-> None, after |-> None]

\* main, lines 212-220: the test-mode banner, then before, after = get_commit_range();
\* an exception that escapes ends the process with a traceback and exit code 1
ResolveRange ==
    /\ pc = "range"
    /\ printed' = IF TestMode(env) THEN {"banner"} ELSE {}
    /\ LET r == get_commit_range(event)
       IN  IF r.raised = "none"
           THEN /\ before' = r.before
                /\ after' = r.after
                /\ pc' = "collect"
                /\ UNCHANGED <<exitCode, uncaught>>
           ELSE /\ uncaught' = r.raised
                /\ exitCode' = 1
                /\ pc' = "done"
                /\ UNCHANGED <<before, after>>
    /\ UNCHANGED <<text, max_length, result, env, event, head, revList, commits, payload,
                   httpRequests, status, gitFailed>>

\* the mutant takes the range when before alone is set
HasRangeBeforeOnly(b, a) == Truthy(b)

\* main, line 222: if before and after
HasRange(b, a) == Truthy(b) /\ Truthy(a)

\* main, lines 228-236 and 239-247: get_commit_info() reads HEAD, and the dict
\* carries GITHUB_SHA
FallbackCommit(e, h) == CommitOf(e.GITHUB_SHA, GitLog(h))

\* get_commits_in_range: one dict per hash printed, read with get_commit_info(sha)
RangeCommits(shas) == [i \in 1..Len(shas) |-> CommitOf(Sha(shas[i]), GitLog(shas[i]))]

\* a git query failed: sys.exit(1) in get_commit_info or get_commits_in_range
GitFails ==
    /\ gitFailed' = TRUE
    /\ exitCode' = 1
    /\ pc' = "done"
    /\ UNCHANGED commits

\* main, lines 222-247: the commits of the range, or the single commit
Collect ==
    /\ pc = "collect"
    /\ IF HasRange(before, after)
       THEN \E revOK \in BOOLEAN, shas \in RevLists, infoOK \in BOOLEAN :
               IF ~revOK
               THEN GitFails /\ UNCHANGED revList
               ELSE /\ revList' = shas
                    /\ IF ~infoOK
                       THEN GitFails
                       ELSE /\ commits' = IF shas = <<>> THEN <<FallbackCommit(env, head)>>
                                          ELSE RangeCommits(shas)
                            /\ pc' = "build"
                            /\ UNCHANGED <<gitFailed, exitCode>>
       ELSE \E infoOK \in BOOLEAN :
               /\ UNCHANGED revList
               /\ IF ~infoOK
                  THEN GitFails
                  ELSE /\ commits' = <<FallbackCommit(env, head)>>
                       /\ pc' = "build"
                       /\ UNCHANGED <<gitFailed, exitCode>>
    /\ UNCHANGED <<text, max_length, result, env, event, head, before, after, payload,
                   httpRequests, status, uncaught, printed>>

\* main, lines 255-267: in test mode print the sizes and the payload, and return
TestModeReport ==
    /\ pc = "built"
    /\ TestMode(env)
    /\ printed' = printed \cup {"sizes", "payload"}
    /\ exitCode' = 0
    /\ pc' = "done"
    /\ UNCHANGED <<text, max_length, result, env, event, head, before, after, revList,
                   commits, payload, httpRequests, status, gitFailed, uncaught>>

\* the exit code after the webhook's answer: 0 on status 204 alone
SendExit(response) == IF response.kind = "response" /\ response.code = 204 THEN 0 ELSE 1

\* main, lines 269-302: post the payload and read the answer
Send ==
    /\ pc = "built"
    /\ ~TestMode(env)
    /\ httpRequests' = httpRequests + 1
    /\ \E response \in Responses :
          /\ status' = response.code
          /\ exitCode' = SendExit(response)
          /\ printed' = IF response.kind = "http_error" /\ response.code = 403 /\ response.marker
                        THEN printed \cup {"error 1010"} ELSE printed
    /\ pc' = "done"
    /\ UNCHANGED <<text, max_length, result, env, event, head, before, after, revList,
                   commits, payload, gitFailed, uncaught>>

Next == Validate \/ ResolveRange \/ Collect \/ BuildPayload \/ TestModeReport \/ Send

Spec == Init /\ [][Next]_vars

----------------------------------------------------------------------------
(* Claims about main *)

PayloadBuilt == payload # NoPayload

\* the resolver returned a (before, after) pair
RangeReturned == Truthy(before) /\ Truthy(after)

\* C3: the process ends with exit code 0 exactly when the three required variables
\* are set, every git query succeeded, and test mode is on or the webhook answered
\* 204; in every other outcome it ends with exit code 1.
C3_ExitCodeContract ==
    pc = "done" =>
        /\ exitCode \in {0, 1}
        /\ exitCode = 0 <=>
              /\ EnvironmentValid(env)
              /\ ~gitFailed
              /\ env.DISCORD_TEST_MODE = <<"1">> \/ (httpRequests = 1 /\ status = 204)

\* C4: with DISCORD_TEST_MODE equal to "1" no HTTP request is ever issued, and
\* once the payload is built the run prints it with the size statistics and ends
\* with exit code 0.
C4_TestModeNoRequest ==
    env.DISCORD_TEST_MODE = <<"1">> =>
        /\ httpRequests = 0
        /\ status = 0
        /\ (pc = "done" /\ PayloadBuilt) => exitCode = 0 /\ {"sizes", "payload"} \subseteq printed

\* a test-mode run that built a digest and ended
C4_Witness ==
    /\ env.DISCORD_TEST_MODE = <<"1">>
    /\ pc = "done"
    /\ PayloadBuilt
    /\ IsDigest(payload)
    /\ exitCode = 0
    /\ httpRequests = 0

\* C5: get_commit_range never makes the process fail: whatever the state of the
\* event description, once the environment is validated the run goes on past the
\* resolver, with no range unless the file parses to an object whose before is
\* present and differs from the all-zero hash.
C5_ResolverNeverFails ==
    (EnvironmentValid(env) /\ pc \notin {"validate", "range"}) =>
        /\ uncaught = "none"
        /\ event.kind # "object" => (before = None /\ after = None)
        /\ before # None =>
              (event.kind = "object" /\ Truthy(event.before) /\ event.before # ZERO_SHA
               /\ before = event.before /\ after = event.after)

\* C6: main builds the digest exactly when the resolver returned a pair and the
\* range holds more than one commit; with no range, or a range of zero commits, it
\* builds a single-commit payload whose commit identifier, short identifier and
\* link are those of GITHUB_SHA.
C6_ShapeFollowsRange ==
    PayloadBuilt =>
        /\ IsDigest(payload) <=> (RangeReturned /\ Len(revList) > 1)
        /\ IsDigest(payload) \/ IsSingle(payload)
        /\ (~RangeReturned \/ Len(revList) = 0) =>
              /\ IsSingle(payload)
              /\ Len(commits) = 1
              /\ commits[1].sha = env.GITHUB_SHA
              /\ commits[1].short_sha = SubSeq(env.GITHUB_SHA, 1, 8)
              /\ payload.fields[2].name = "Commit"
              /\ payload.fields[2].value =
                    <<"[">> \o SubSeq(env.GITHUB_SHA, 1, 8) \o <<"]", "(">>
                    \o commit_url(env.GITHUB_REPOSITORY, env.GITHUB_SHA) \o <<")">>

\* a range that was resolved and held no commit: the single-commit payload of
\* GITHUB_SHA
C6_Witness ==
    /\ PayloadBuilt
    /\ RangeReturned
    /\ revList = <<>>
    /\ IsSingle(payload)

\* a range of more than one commit: the digest
C6_WitnessDigest ==
    /\ PayloadBuilt
    /\ RangeReturned
    /\ Len(revList) > 1
    /\ IsDigest(payload)

\* C10: in every single-commit payload main builds with no range or an empty
\* range, the subject, body and author shown are those of the commit GITHUB_SHA
\* names, the commit the Commit field links to, also when HEAD is another commit.
C10_MetadataOfLinkedCommit ==
    (PayloadBuilt /\ (~RangeReturned \/ Len(revList) = 0)) =>
        LET info == GitLog(CommitWithSha(env.GITHUB_SHA))
        IN  /\ payload.title = truncate_text(info.message, 256)
            /\ payload.description = truncate_text(info.body, 2000)
            /\ payload.fields[1].value = info.author

====
